---- MODULE Spec2Model ----
(***************************************************************************)
(* Speactive: remembered objects (remember.ts), components (Component.ts)  *)
(* and descriptor delegation (delegate.ts).                                *)
(*                                                                         *)
(* A remembered object is a Proxy around a plain record with a private     *)
(* Map of subscribers (component -> remembered argument).  A remembered    *)
(* argument ("descriptor") is an ARRAY of entries, each entry an object    *)
(* { '_#remember': store, <field>: string[] ... }.                         *)
(*                                                                         *)
(* JavaScript values that the code inspects dynamically are modelled as    *)
(* tagged records (kind "undefined" / "object" / "array"), so that member  *)
(* lookups and method calls behave as the language defines them.           *)
(*                                                                         *)
(* Execution is single-threaded and synchronous: every operation (a write  *)
(* with its notification pass, a constructor, a binding call, destroy, a   *)
(* delegate call) is one atomic action.                                    *)
(*                                                                         *)
(* Specifications:                                                         *)
(*   Spec          two components over two stores (lifecycle and writes)   *)
(*   SpecRegistry  the same with direct register / forget calls            *)
(*   SpecRender    one component with data sources and the three factories *)
(*   SpecDelegate  delegate over bounded descriptors and mappings          *)
(***************************************************************************)
EXTENDS Integers, Sequences, FiniteSets, TLC

\* ----------------------------------------------------------------- bounds
\* Stored values range over 0..MaxVal.
MaxVal == 1

\* ------------------------------------------------------------- universes
Stores == {"s1", "s2"}
Components == {"c1", "c2"}
Props == {"p", "q"}
FieldNames == {"a", "b"}

Values == 0..MaxVal
\* "no value": JavaScript undefined where a number is expected
NoValue == -1

\* The key under which an entry holds its store reference.
RememberKey == "_#remember"

\* ----------------------------------------------------- JavaScript values
JsUndefined == [kind |-> "undefined"]
JsArray(deps) == [kind |-> "array", deps |-> deps]
JsObject(entry) == [kind |-> "object", entry |-> entry]

\* A descriptor entry: the store reference and the own properties other
\* than '_#remember' (field name -> dependency list, or undefined).
Entry(s, fields) == [store |-> s, fields |-> fields]

\* The empty function (an object without own properties).
NoFields == [k \in {} |-> JsUndefined]

\* deps: string[] held under a field name
Deps(ps) == JsArray(ps)

\* `key in entry` (own properties; the prototype chain holds no field name)
HasKey(entry, key) == key = RememberKey \/ key \in DOMAIN entry.fields

\* entry[key] for a field name
EntryGet(entry, key) ==
  IF key \in DOMAIN entry.fields THEN entry.fields[key] ELSE JsUndefined

\* ------------------------------------------------------ Map<K, V> helpers
\* A JavaScript Map is a sequence of [key, val] pairs in insertion order.
MapHas(m, k) == \E i \in 1..Len(m) : m[i].key = k

MapGet(m, k) == m[CHOOSE i \in 1..Len(m) : m[i].key = k].val

\* (variant that accumulates entries instead of replacing)
MapSet_accumulate(m, k, v) == Append(m, [key |-> k, val |-> v])

\* Map.prototype.set: an existing key keeps its position and gets the new
\* value; a new key is appended.
MapSet(m, k, v) ==
  IF MapHas(m, k)
  THEN [i \in 1..Len(m) |-> IF m[i].key = k THEN [key |-> k, val |-> v] ELSE m[i]]
  ELSE Append(m, [key |-> k, val |-> v])

\* Map.prototype.delete: no-op when the key is absent.
MapDelete(m, k) == SelectSeq(m, LAMBDA e : e.key # k)

MapKeys(m) == {m[i].key : i \in 1..Len(m)}

\* ------------------------------------------------------------- variables
VARIABLES
  data,         \* data[s][p]: the target record of each remembered object
  readonly,     \* set of <<s, p>>: non-writable properties of the targets
  subscribers,  \* subscribers[s]: Map<Component, RememberedArg>
  status,       \* status[c]: "none" (not constructed), "live", "destroyed"
  dataSources,  \* dataSources[c]: field name -> data source function
  updaters,     \* updaters[c]: Map<field name, updater>
  remembered,   \* remembered[c]: the descriptor given to the constructor
  root,         \* root[c]: the root element of the component
  last,         \* observation of the most recent operation
  delegArg,     \* argument rememberedArg of the delegate call under check
  delegFields,  \* argument fields of the delegate call under check
  delegResult   \* [done, value]: the result of that delegate call

vars == <<data, readonly, subscribers, status, dataSources, updaters,
          remembered, root, last, delegArg, delegFields, delegResult>>

storeVars == <<data, readonly, subscribers>>
compVars == <<status, dataSources, updaters, remembered, root>>
delegVars == <<delegArg, delegFields, delegResult>>

\* --------------------------------------------------------------- elements
\* An HTMLElement as far as the built-in updaters touch it: its innerText,
\* one attribute and one style property.  TextEmpty/AttrAbsent/StyleEmpty
\* are the states of a freshly created element.
TextEmpty == -1
AttrAbsent == -1
StyleEmpty == -1
\* the text an element shows after `innerText = undefined`
TextUndefined == -2

NewElement == [innerText |-> TextEmpty, attr |-> AttrAbsent, style |-> StyleEmpty]

\* ----------------------------------------------------------- data sources
\* A data source is a zero-argument function.  DsRead(s, p) stands for
\* `() => s.p`; DsUnset for a function that returns undefined.
DsRead(s, p) == [kind |-> "read", store |-> s, prop |-> p]
DsUnset == [kind |-> "unset"]

\* dataSource(): NoValue stands for undefined
CallDataSource(ds, dat) ==
  IF ds.kind = "read" THEN dat[ds.store][ds.prop] ELSE NoValue

\* --------------------------------------------------------------- updaters
\* An updater closure: which factory built it and for which field.
Updater(kind, f) == [kind |-> kind, field |-> f]

UpdaterKinds == {"text", "attribute", "style"}

\* (variant whose attribute and style updaters do nothing when the data
\* source yields no value)
RunUpdater_keepOnUnset(u, dss, dat, el) ==
  IF u.field \notin DOMAIN dss THEN el
  ELSE LET d == CallDataSource(dss[u.field], dat) IN
    CASE u.kind = "text" ->
           [el EXCEPT !.innerText = IF d = NoValue THEN TextUndefined ELSE d]
      [] u.kind = "attribute" ->
           [el EXCEPT !.attr = IF d # NoValue THEN d ELSE @]
      [] u.kind = "style" ->
           [el EXCEPT !.style = IF d # NoValue THEN d ELSE @]
      [] OTHER -> el

\* Running an updater of component c: the closure reads this.dataSources
\* and writes the element (the root element by default).
RunUpdater(u, dss, dat, el) ==
  IF u.field \notin DOMAIN dss THEN el              \* if (!dataSource) return;
  ELSE LET d == CallDataSource(dss[u.field], dat) IN
    CASE u.kind = "text" ->
           [el EXCEPT !.innerText = IF d = NoValue THEN TextUndefined ELSE d]
      [] u.kind = "attribute" ->
           [el EXCEPT !.attr = IF d # NoValue THEN d ELSE AttrAbsent]
      [] u.kind = "style" ->
           [el EXCEPT !.style = IF d # NoValue THEN d ELSE StyleEmpty]
      [] OTHER -> el

\* ---------------------------------------------- remember: the set trap
\* for (const field in subscriber[1]): subscriber[1] is the remembered
\* argument, an array, so the enumerated keys are its indices "0", "1", ...
ForInKeys(rem) == [i \in 1..Len(rem) |-> ToString(i - 1)]

\* subscriber[1][field]: the element of the array under that key
ArrayGet(rem, key) ==
  IF \E i \in 1..Len(rem) : ToString(i - 1) = key
  THEN JsObject(rem[CHOOSE i \in 1..Len(rem) : ToString(i - 1) = key])
  ELSE JsUndefined

\* x?.includes(p): undefined short-circuits (falsy); an array answers; on
\* any other object `includes` is not a function and the call throws.
OptIncludes(x, p) ==
  IF x.kind = "undefined" THEN "false"
  ELSE IF x.kind = "array" THEN (IF p \in x.deps THEN "true" ELSE "false")
  ELSE "TypeError"

RECURSIVE ScanKeys(_, _, _, _)
ScanKeys(rem, keys, p, acc) ==
  IF keys = <<>> THEN [threw |-> FALSE, fields |-> acc]
  ELSE LET field == Head(keys) IN
    IF field = RememberKey THEN ScanKeys(rem, Tail(keys), p, acc)
    ELSE LET r == OptIncludes(ArrayGet(rem, field), p) IN
      IF r = "TypeError" THEN [threw |-> TRUE, fields |-> acc]
      ELSE ScanKeys(rem, Tail(keys), p,
                    IF r = "true" THEN Append(acc, field) ELSE acc)

RECURSIVE SetToSeq(_)
SetToSeq(S) ==
  IF S = {} THEN <<>>
  ELSE LET x == CHOOSE y \in S : TRUE IN <<x>> \o SetToSeq(S \ {x})

\* (variant that walks the fields of every entry and skips the dependency test)
FieldsToUpdate_allFields(rem, p) ==
  [threw |-> FALSE,
   fields |-> SetToSeq(UNION {DOMAIN rem[i].fields : i \in 1..Len(rem)})]

\* (variant that walks the fields of every entry, whatever store it names)
FieldsToUpdate_entryFields(rem, p) ==
  [threw |-> FALSE,
   fields |-> SetToSeq({f \in UNION {DOMAIN rem[i].fields : i \in 1..Len(rem)} :
                          \E i \in 1..Len(rem) :
                            /\ f \in DOMAIN rem[i].fields
                            /\ OptIncludes(rem[i].fields[f], p) = "true"})]

\* The fieldsToUpdate of one subscriber for a write to property p, or the
\* TypeError that building it raises.
FieldsToUpdate(rem, p) == ScanKeys(rem, ForInKeys(rem), p, <<>>)

\* store[forgetSymbol](component)
ForgetIn(subs, s, c) == [subs EXCEPT ![s] = MapDelete(@, c)]

\* (variant that deregisters from the store of the first entry only)
ForgetAll_firstOnly(subs, c, rem, i) ==
  IF Len(rem) = 0 THEN subs ELSE ForgetIn(subs, rem[1].store, c)

\* for (const remembered of this.remembered)
\*   remembered['_#remember'][forgetSymbol](this)
RECURSIVE ForgetAll(_, _, _, _)
ForgetAll(subs, c, rem, i) ==
  IF i > Len(rem) THEN subs
  ELSE ForgetAll(ForgetIn(subs, rem[i].store, c), c, rem, i + 1)

\* How many set traps may be active at once: one more and the call stack
\* is exhausted (RangeError).
MaxDepth == 2

\* The objects a running operation can reach, and what it has done so far:
\*   threw    "-" or the name of the error that is propagating
\*   ret      the returnValue of the set trap that finished last
\*   visited  the subscribers the outermost notification pass has examined
\*   calls    the updater invocations made, in order
World ==
  [data |-> data, readonly |-> readonly, subscribers |-> subscribers,
   status |-> status, dataSources |-> dataSources, updaters |-> updaters,
   remembered |-> remembered, root |-> root,
   threw |-> "-", ret |-> TRUE, visited |-> <<>>, calls |-> <<>>]

\* The body of component.destroy() (this.root.remove() detaches the
\* element and leaves the element itself as it is; Object.assign(
\* this.dataSources, {}) copies nothing).
DestroyIn(W, c) ==
  [W EXCEPT !.updaters[c] = NoFields,
            !.subscribers = ForgetAll(W.subscribers, c, W.remembered[c], 1),
            !.status[c] = "destroyed"]

RECURSIVE SetTrap(_, _, _, _, _)
RECURSIVE Notify(_, _, _, _, _, _)
RECURSIVE InvokeFields(_, _, _, _, _)
RECURSIVE CallUpdater(_, _, _, _)

\* updater(oldValue).  The updaters of the factories render into the root;
\* an updater written by the application may assign to a store (and in
\* strict code the assignment throws when the trap returns false) or
\* destroy another component.
CallUpdater(W, c, u, depth) ==
  CASE u.kind \in UpdaterKinds ->
         [W EXCEPT !.root[c] = RunUpdater(u, W.dataSources[c], W.data, @)]
    [] u.kind = "write" ->
         LET n == SetTrap(W, u.store, u.prop, u.value, depth + 1)
         IN IF n.threw = "-" /\ ~n.ret THEN [n EXCEPT !.threw = "TypeError"]
            ELSE n
    [] u.kind = "destroy" -> DestroyIn(W, u.target)
    [] OTHER -> W

\* for (const field of fieldsToUpdate) subscriber[0].updaters.get(field)?.(oldValue)
InvokeFields(W, c, fields, oldValue, depth) ==
  IF fields = <<>> \/ W.threw # "-" THEN W
  ELSE LET field == Head(fields)
           next ==
             IF field \in DOMAIN W.updaters[c]
             THEN CallUpdater(
                    [W EXCEPT !.calls =
                       Append(@, [comp |-> c, field |-> field,
                                  updater |-> W.updaters[c][field],
                                  arg |-> oldValue, pass |-> depth])],
                    c, W.updaters[c][field], depth)
             ELSE W
       IN InvokeFields(next, c, Tail(fields), oldValue, depth)

\* (variant that catches what examining a subscriber raises and goes on
\* with the next subscriber)
Notify_swallow(W, s, p, oldValue, i, depth) ==
  IF W.threw # "-" \/ i > Len(W.subscribers[s]) THEN W
  ELSE LET subscriber == W.subscribers[s][i]
           c == subscriber.key
           scan == FieldsToUpdate(subscriber.val, p)
           seen == IF depth = 1 THEN [W EXCEPT !.visited = Append(@, c)] ELSE W
       IN IF scan.threw THEN Notify(seen, s, p, oldValue, i + 1, depth)
          ELSE LET n == InvokeFields(seen, c, scan.fields, oldValue, depth)
                   passed == {k \in 1..i :
                                MapHas(n.subscribers[s], W.subscribers[s][k].key)}
               IN Notify(n, s, p, oldValue, Cardinality(passed) + 1, depth)

\* for (const subscriber of subscribers) { ... }: the notification pass of
\* store s, about to look at the i-th entry of the Map.  The iteration is
\* live: an entry deleted before it is reached is not visited, and the
\* position moves back by the visited entries that were deleted.
Notify(W, s, p, oldValue, i, depth) ==
  IF W.threw # "-" \/ i > Len(W.subscribers[s]) THEN W
  ELSE LET subscriber == W.subscribers[s][i]
           c == subscriber.key
           scan == FieldsToUpdate(subscriber.val, p)
           seen == IF depth = 1 THEN [W EXCEPT !.visited = Append(@, c)] ELSE W
       IN IF scan.threw THEN [seen EXCEPT !.threw = "TypeError"]
          ELSE LET n == InvokeFields(seen, c, scan.fields, oldValue, depth)
                   passed == {k \in 1..i :
                                MapHas(n.subscribers[s], W.subscribers[s][k].key)}
               IN Notify(n, s, p, oldValue, Cardinality(passed) + 1, depth)

\* Reflect.set(target, p, newValue, target): false, and no change, for a
\* non-writable property.
ReflectSet(dat, ro, s, p, v) ==
  IF <<s, p>> \in ro THEN [ok |-> FALSE, data |-> dat]
  ELSE [ok |-> TRUE, data |-> [dat EXCEPT ![s][p] = v]]

\* (variant that runs the notification pass before storing the value)
SetTrap_notifyFirst(W, s, p, v, depth) ==
  LET oldValue == W.data[s][p]
      n == Notify(W, s, p, oldValue, 1, depth)
      w == ReflectSet(n.data, n.readonly, s, p, v)
  IN IF n.threw # "-" THEN n ELSE [n EXCEPT !.data = w.data, !.ret = w.ok]

\* The set trap: set(target, p, newValue) { ... }
SetTrap(W, s, p, v, depth) ==
  IF depth > MaxDepth THEN [W EXCEPT !.threw = "RangeError"]
  ELSE LET oldValue == W.data[s][p]
           w == ReflectSet(W.data, W.readonly, s, p, v)
           n == Notify([W EXCEPT !.data = w.data], s, p, oldValue, 1, depth)
       IN [n EXCEPT !.ret = w.ok]

\* ------------------------------------------------- observation of an op
\* What the caller of the most recent operation could observe:
\*   op         which operation ran ("init" before any)
\*   comp/store/prop/newValue/arg  its arguments (arg: a descriptor)
\*   oldValue   the value the set trap captured before writing
\*   wrote      the result of Reflect.set
\*   returned   "true"/"false": what the set trap returned; "TypeError": it threw
\*   visited    the subscribers whose descriptor the notification pass examined
\*   calls      the updater invocations made, in order: [comp, field, updater, arg]
\*   hadPrior/prior  the descriptor a registration found under the component
\*   sizeBefore the size of the store's Map before a registration
NoCalls == <<>>
NoObs ==
  [op |-> "init", comp |-> "-", store |-> "-", prop |-> "-",
   oldValue |-> NoValue, newValue |-> NoValue, wrote |-> FALSE,
   returned |-> "-", visited |-> <<>>, calls |-> NoCalls,
   arg |-> <<>>, hadPrior |-> FALSE, prior |-> <<>>, sizeBefore |-> 0]

OpObs(op, c) == [NoObs EXCEPT !.op = op, !.comp = c]

\* ---------------------------------------------------------------- actions
\* store.p = v  (the Proxy's set trap, run to completion)
Write(s, p, v) ==
  \E n \in {SetTrap(World, s, p, v, 1)} :
     LET oldValue == data[s][p] IN
     /\ data' = n.data
     /\ root' = n.root
     /\ subscribers' = n.subscribers
     /\ status' = n.status
     /\ updaters' = n.updaters
     /\ last' = [NoObs EXCEPT
                    !.op = "write", !.store = s, !.prop = p,
                    !.oldValue = oldValue, !.newValue = v, !.wrote = n.ret,
                    !.returned = IF n.threw # "-" THEN n.threw
                                 ELSE IF n.ret THEN "true" ELSE "false",
                    !.visited = n.visited, !.calls = n.calls]
     /\ UNCHANGED <<readonly, dataSources, remembered, delegVars>>

\* store.p  (the Proxy's get trap for an ordinary property)
Read(s, p) ==
  /\ last' = [NoObs EXCEPT !.op = "read", !.store = s, !.prop = p,
                           !.returned = ToString(data[s][p])]
  /\ UNCHANGED <<storeVars, compVars, delegVars>>

\* store[rememberSymbol](component, remembered)
RegisterIn(subs, s, c, rem) == [subs EXCEPT ![s] = MapSet(@, c, rem)]

\* A direct call by application code, for a component in use.
Register(s, c, rem) ==
  /\ status[c] = "live"
  /\ subscribers' = RegisterIn(subscribers, s, c, rem)
  /\ last' = [OpObs("register", c) EXCEPT
                 !.store = s, !.arg = rem,
                 !.sizeBefore = Len(subscribers[s]),
                 !.hadPrior = MapHas(subscribers[s], c),
                 !.prior = IF MapHas(subscribers[s], c)
                           THEN MapGet(subscribers[s], c) ELSE <<>>]
  /\ UNCHANGED <<data, readonly, compVars, delegVars>>

Forget(s, c) ==
  /\ status[c] = "live"
  /\ subscribers' = ForgetIn(subscribers, s, c)
  /\ last' = [OpObs("forget", c) EXCEPT !.store = s]
  /\ UNCHANGED <<data, readonly, compVars, delegVars>>

\* (variant that registers with the store of the first entry only)
RegisterAll_firstOnly(subs, c, rem, i) ==
  IF Len(rem) = 0 THEN subs ELSE RegisterIn(subs, rem[1].store, c, rem)

\* for (const remembered of this.remembered)
\*   remembered['_#remember'][rememberSymbol](this, this.remembered)
RECURSIVE RegisterAll(_, _, _, _)
RegisterAll(subs, c, rem, i) ==
  IF i > Len(rem) THEN subs
  ELSE RegisterAll(RegisterIn(subs, rem[i].store, c, rem), c, rem, i + 1)

\* new Component(dataSources, rootTag, remembered)
Construct(c, dss, rem) ==
  /\ status[c] = "none"
  /\ status' = [status EXCEPT ![c] = "live"]
  /\ dataSources' = [dataSources EXCEPT ![c] = dss]
  /\ updaters' = [updaters EXCEPT ![c] = NoFields]
  /\ remembered' = [remembered EXCEPT ![c] = rem]
  /\ root' = [root EXCEPT ![c] = NewElement]
  /\ subscribers' = RegisterAll(subscribers, c, rem, 1)
  /\ last' = [OpObs("construct", c) EXCEPT !.arg = rem]
  /\ UNCHANGED <<data, readonly, delegVars>>

\* (variant that stores the updater without running it)
RunAtBind_skipped(c, u, dss, dat, el) == [calls |-> NoCalls, root |-> el]

\* updater();  -- the factory runs the closure once, without argument
RunAtBind(c, u, dss, dat, el) ==
  [calls |-> <<[comp |-> c, field |-> u.field, updater |-> u, arg |-> NoValue,
                 pass |-> 0]>>,
   root |-> RunUpdater(u, dss, dat, el)]

\* setInnerText(f) / setAttribute(name, f) / setCSSStyle(style, f)
Bind(c, kind, f) ==
  LET u == Updater(kind, f)
      run == RunAtBind(c, u, dataSources[c], data, root[c])
  IN
  /\ status[c] = "live"
  /\ root' = [root EXCEPT ![c] = run.root]
  /\ updaters' = [updaters EXCEPT ![c] =
                    [k \in DOMAIN @ \cup {f} |-> IF k = f THEN u ELSE @[k]]]
  /\ last' = [OpObs("bind", c) EXCEPT !.calls = run.calls]
  /\ UNCHANGED <<storeVars, status, dataSources, remembered, delegVars>>

\* Updaters written by the application (Updaters maps a field to any
\* function of the old value):
\*   () => { store.prop = value }      and      () => other.destroy()
WriteUpdater(f, s, p, v) ==
  [kind |-> "write", field |-> f, store |-> s, prop |-> p, value |-> v]
DestroyUpdater(f, t) == [kind |-> "destroy", field |-> f, target |-> t]

\* component.updaters.set(f, u): the Map is public, nothing is run
SetUpdater(c, f, u) ==
  /\ status[c] = "live"
  /\ u.kind = "destroy" => (u.target # c /\ status[u.target] = "live")
  /\ updaters' = [updaters EXCEPT ![c] =
                    [k \in DOMAIN @ \cup {f} |-> IF k = f THEN u ELSE @[k]]]
  /\ last' = OpObs("setUpdater", c)
  /\ UNCHANGED <<storeVars, status, dataSources, remembered, root, delegVars>>

\* component.destroy().  this.root.remove() detaches the element from its
\* parent and leaves the element itself as it is.  A destroyed component is
\* not used again (no binding, registration or second destroy).
Destroy(c) ==
  /\ status[c] = "live"
  /\ \E n \in {DestroyIn(World, c)} :
       /\ status' = n.status
       /\ updaters' = n.updaters                        \* this.updaters.clear()
       /\ subscribers' = n.subscribers
  /\ dataSources' = dataSources    \* Object.assign(this.dataSources, {}) copies nothing
  /\ last' = OpObs("destroy", c)
  /\ UNCHANGED <<data, readonly, remembered, root, delegVars>>

\* ---------------------------------------------------------------- delegate
\* (variant with every() in place of some())
SomeSourceIn_every(entry, fields) ==
  \A i \in 1..Len(fields) : HasKey(entry, fields[i].source)

\* fields.some((field) => field.source in remembered)
SomeSourceIn(entry, fields) ==
  \E i \in 1..Len(fields) : HasKey(entry, fields[i].source)

\* for (const field of fields) newRemembered[field.target] = remembered[field.source]
RECURSIVE AssignTargets(_, _, _)
AssignTargets(entry, fields, acc) ==
  IF fields = <<>> THEN acc
  ELSE LET m == Head(fields)
           v == EntryGet(entry, m.source)
       IN AssignTargets(entry, Tail(fields),
            [k \in DOMAIN acc \cup {m.target} |->
               IF k = m.target THEN v ELSE acc[k]])

\* the callback of .map(): { '_#remember': remembered['_#remember'] } plus targets
NewRemembered(entry, fields) ==
  Entry(entry.store, AssignTargets(entry, fields, NoFields))

\* rememberedArg.filter(...)
FilterEntries(rem, fields) ==
  SelectSeq(rem, LAMBDA e : SomeSourceIn(e, fields))

\* delegate(rememberedArg, fields)
delegate(rem, fields) ==
  LET kept == FilterEntries(rem, fields)
  IN [i \in 1..Len(kept) |-> NewRemembered(kept[i], fields)]

\* (variant whose map callback writes the targets into the entry it is
\* given, and returns that entry, instead of building a new object)
DelegateRun_inPlace(rem, fields) ==
  LET renamed == [i \in 1..Len(rem) |->
                    IF SomeSourceIn(rem[i], fields)
                    THEN Entry(rem[i].store,
                               AssignTargets(rem[i], fields, rem[i].fields))
                    ELSE rem[i]]
  IN [source |-> renamed, result |-> FilterEntries(renamed, fields)]

\* One call of delegate, as its caller sees it: the argument array after
\* the call and the array returned.  filter() and map() build new arrays and
\* the callback writes only to the object literal it creates, so the
\* argument is left as it was.
DelegateRun(rem, fields) == [source |-> rem, result |-> delegate(rem, fields)]

\* The registrations of component c hold its descriptor array by
\* reference (subscribers.set(component, remembered) stores this.remembered),
\* so they show whatever the array holds.
Aliased(subs, c, rem) ==
  [s \in Stores |->
     [i \in 1..Len(subs[s]) |->
        IF subs[s][i].key = c THEN [key |-> c, val |-> rem] ELSE subs[s][i]]]

\* Inside component c: delegate(this.remembered, fields)
DelegateFrom(c, fields) ==
  LET run == DelegateRun(remembered[c], fields)
  IN /\ status[c] = "live"
     /\ delegArg' = run.source
     /\ delegFields' = fields
     /\ delegResult' = [done |-> TRUE, value |-> run.result]
     /\ remembered' = [remembered EXCEPT ![c] = run.source]
     /\ subscribers' = Aliased(subscribers, c, run.source)
     /\ last' = [OpObs("delegate", c) EXCEPT !.arg = remembered[c]]
     /\ UNCHANGED <<data, readonly, status, dataSources, updaters, root>>

\* ------------------------------------------------------- inputs (bounded)
\* Descriptors handed to constructors and to direct registrations.
OneField(k, ps) == k :> Deps(ps)

DescA == <<Entry("s1", OneField("a", {"p"}))>>
DescB == <<Entry("s1", OneField("b", {"p"}))>>
DescAB == <<Entry("s1", OneField("a", {"p"}) @@ OneField("b", {"q"}))>>
DescTwo == <<Entry("s1", OneField("a", {"p"})), Entry("s2", OneField("b", {"p"}))>>

Descriptors == {<<>>, DescA, DescB, DescAB, DescTwo}

\* Inputs of delegate: descriptors of at most MaxEntries entries over
\* source fields a, b; at most MaxMappings mappings, whose sources include
\* a field ("c") that no entry declares and whose targets may coincide.
MaxEntries == 2
MaxMappings == 2

SeqsUpTo(S, n) == UNION {[1..k -> S] : k \in 0..n}

DelegEntries ==
  {Entry(s, fa @@ fb) :
     s \in Stores,
     fa \in {NoFields, OneField("a", {"p"}), OneField("a", {"p", "q"})},
     fb \in {NoFields, OneField("b", {"q"})}}

DelegDescriptors == SeqsUpTo(DelegEntries, MaxEntries)

DelegSources == {"a", "b", "c"}
DelegTargets == {"x", "y"}

Mappings == [source : DelegSources, target : DelegTargets]

DelegMappings == SeqsUpTo(Mappings, MaxMappings)

\* Direct calls of store[rememberSymbol] pass one of these.
RegisterDescriptors == {<<>>, DescA, DescB}

\* Data-source objects handed to constructors.
DataSourceChoices ==
  {NoFields, "a" :> DsRead("s1", "p"), ("a" :> DsRead("s1", "p")) @@ ("b" :> DsUnset)}

\* Which properties of the targets are non-writable.
ReadonlyChoices == {{}, {<<"s1", "q">>}}

\* The properties of each target record: s1 = {p, q}, s2 = {p}.
StoreProps(s) == IF s = "s1" THEN {"p", "q"} ELSE {"p"}

NoResult == [done |-> FALSE, value |-> <<>>]

\* ------------------------------------------------------------------- Init
InitStores ==
  /\ data = [s \in Stores |-> [p \in Props |-> 0]]
  /\ subscribers = [s \in Stores |-> <<>>]

InitComponents ==
  /\ status = [c \in Components |-> "none"]
  /\ dataSources = [c \in Components |-> NoFields]
  /\ updaters = [c \in Components |-> NoFields]
  /\ remembered = [c \in Components |-> <<>>]
  /\ root = [c \in Components |-> NewElement]

InitDelegate ==
  /\ delegArg = <<>>
  /\ delegFields = <<>>
  /\ delegResult = NoResult

Init ==
  /\ InitStores
  /\ readonly \in ReadonlyChoices
  /\ InitComponents
  /\ last = NoObs
  /\ InitDelegate

\* ------------------------------------------------------------------- Spec
\* Components over two stores: construction, binding, writes, destruction.
\* The components carry no data sources here, so their updaters return at
\* `if (!dataSource) return;` (SpecRender exercises the data sources).
Next ==
  \/ \E s \in Stores, v \in Values : \E p \in StoreProps(s) : Write(s, p, v)
  \/ \E c \in Components, rem \in Descriptors : Construct(c, NoFields, rem)
  \/ \E c \in Components, f \in FieldNames : Bind(c, "text", f)
  \/ \E c \in Components : Destroy(c)

Spec == Init /\ [][Next]_vars

\* ----------------------------------------------------------- SpecRegistry
\* The same, with direct calls of the rememberSymbol / forgetSymbol
\* functions of a store.
InitRegistry ==
  /\ InitStores
  /\ readonly = {}
  /\ InitComponents
  /\ last = NoObs
  /\ InitDelegate

NextRegistry ==
  \/ \E v \in Values : Write("s1", "p", v)
  \/ \E c \in Components, rem \in {DescA, DescTwo} : Construct(c, NoFields, rem)
  \/ \E c \in Components : Destroy(c)
  \/ \E s \in Stores, c \in Components, rem \in RegisterDescriptors :
       Register(s, c, rem)
  \/ \E s \in Stores, c \in Components : Forget(s, c)

SpecRegistry == InitRegistry /\ [][NextRegistry]_vars

\* ------------------------------------------------------------- SpecRender
\* One component with data sources, bound through the three factories.
NextRender ==
  \/ \E v \in Values, p \in StoreProps("s1") : Write("s1", p, v)
  \/ \E dss \in DataSourceChoices, rem \in {DescA, DescAB} :
       Construct("c1", dss, rem)
  \/ \E kind \in UpdaterKinds, f \in FieldNames : Bind("c1", kind, f)
  \/ Destroy("c1")

SpecRender == Init /\ [][NextRender]_vars

\* ----------------------------------------------------------- SpecDelegate
\* delegate applied to every bounded descriptor and mapping list.
InitDelegateCall ==
  /\ InitStores
  /\ readonly = {}
  /\ InitComponents
  /\ last = NoObs
  /\ delegArg \in DelegDescriptors
  /\ delegFields \in DelegMappings
  /\ delegResult = NoResult

DelegateCall ==
  /\ ~delegResult.done
  /\ delegResult' = [done |-> TRUE, value |-> delegate(delegArg, delegFields)]
  /\ last' = [OpObs("delegate", "-") EXCEPT !.arg = delegArg]
  /\ UNCHANGED <<storeVars, compVars, delegArg, delegFields>>

NextDelegate == DelegateCall

SpecDelegate == InitDelegateCall /\ [][NextDelegate]_vars

\* ------------------------------------------------------------- SpecNested
\* A parent component c1 delegates fields of its descriptor to a child c2
\* (the usage shown in the doc comment of delegate).
NestedMappings ==
  {<<>>,
   <<[source |-> "a", target |-> "x"]>>,
   <<[source |-> "c", target |-> "x"]>>,
   <<[source |-> "a", target |-> "x"], [source |-> "b", target |-> "y"]>>,
   <<[source |-> "b", target |-> "x"], [source |-> "c", target |-> "y"]>>}

NextNested ==
  \/ \E rem \in {DescA, DescAB, DescTwo} : Construct("c1", NoFields, rem)
  \/ \E fields \in NestedMappings : DelegateFrom("c1", fields)
  \/ delegResult.done /\ Construct("c2", NoFields, delegResult.value)
  \/ \E v \in Values : Write("s1", "p", v)
  \/ \E c \in Components : Destroy(c)

SpecNested == InitRegistry /\ [][NextNested]_vars

\* ---------------------------------------------------------- SpecReentrant
\* Components whose updaters may themselves write to the store or destroy
\* the other component, and plain reads of the store.
AppUpdaters(c) ==
  {WriteUpdater("a", "s1", "q", MaxVal)}
    \cup {DestroyUpdater("a", t) : t \in Components \ {c}}

NextReentrant ==
  \/ \E v \in Values, p \in StoreProps("s1") : Write("s1", p, v)
  \/ \E p \in StoreProps("s1") : Read("s1", p)
  \/ \E c \in Components : Construct(c, "a" :> DsRead("s1", "p"), DescAB)
  \/ \E c \in Components, f \in FieldNames : Bind(c, "text", f)
  \/ \E u \in AppUpdaters("c1") : SetUpdater("c1", "a", u)
  \/ \E c \in Components : Destroy(c)

SpecReentrant == InitRegistry /\ [][NextReentrant]_vars

\* ======================================================================
\* Properties
\* ======================================================================
Registered(s, c) == MapHas(subscribers[s], c)
HeldDescriptor(s, c) == MapGet(subscribers[s], c)

\* Some entry of rem declares p in the dependency list of field f.
Declares(rem, f, p) ==
  \E i \in 1..Len(rem) :
    /\ f \in DOMAIN rem[i].fields
    /\ rem[i].fields[f].kind = "array"
    /\ p \in rem[i].fields[f].deps

\* Some entry of rem that names store s declares p for field f.
DeclaresFor(rem, s, f, p) ==
  \E i \in 1..Len(rem) :
    /\ rem[i].store = s
    /\ f \in DOMAIN rem[i].fields
    /\ rem[i].fields[f].kind = "array"
    /\ p \in rem[i].fields[f].deps

StoresOf(rem) == {rem[i].store : i \in 1..Len(rem)}

\* The invocations of c's updater for field f made by the last operation.
CallsOf(c, f) ==
  {i \in 1..Len(last.calls) : last.calls[i].comp = c /\ last.calls[i].field = f}

\* c is subscribed to the written store with a bound field f that depends
\* on the written property.
Affected(c, f) ==
  /\ status[c] = "live"
  /\ Registered(last.store, c)
  /\ f \in DOMAIN updaters[c]
  /\ DeclaresFor(HeldDescriptor(last.store, c), last.store, f, last.prop)

\* C1: every write to S.p (also of the value p already holds) invokes,
\* exactly once and with the value S.p held before the write, the updater
\* of every bound field that depends on p, of every component registered
\* with S by its constructor.
C1_NotifyOnEveryWrite ==
  (last.op = "write" /\ last.wrote) =>
    \A c \in Components, f \in FieldNames :
      Affected(c, f) =>
        /\ Cardinality(CallsOf(c, f)) = 1
        /\ \A i \in CallsOf(c, f) :
             /\ last.calls[i].arg = last.oldValue
             /\ last.calls[i].updater = updaters[c][f]

\* C2: a write to S.p invokes no updater of a field whose dependency set
\* does not contain p, also when another field of the same component
\* depends on p.
C2_SubscriberIsolation ==
  last.op = "write" =>
    \A i \in 1..Len(last.calls) :
      /\ Registered(last.store, last.calls[i].comp)
      /\ Declares(HeldDescriptor(last.store, last.calls[i].comp),
                  last.calls[i].field, last.prop)

\* A write to p reached a component with two bound fields, one depending
\* on p and one not.
C2_Witness ==
  /\ last.op = "write"
  /\ last.wrote
  /\ \E c \in Components, f \in FieldNames, g \in FieldNames :
       /\ Registered(last.store, c)
       /\ c \in {last.visited[i] : i \in 1..Len(last.visited)}
       /\ {f, g} \subseteq DOMAIN updaters[c]
       /\ Declares(HeldDescriptor(last.store, c), f, last.prop)
       /\ ~Declares(HeldDescriptor(last.store, c), g, last.prop)

\* C3: once a component is destroyed, a write to a store of its descriptor
\* invokes none of its updaters and raises no error.
C3_DestroyedNeverNotified ==
  \A c \in Components :
    (status[c] = "destroyed" /\ last.op = "write"
       /\ last.store \in StoresOf(remembered[c])) =>
      /\ \A i \in 1..Len(last.calls) : last.calls[i].comp # c
      /\ last.returned # "TypeError"

\* C4: with two distinct components registered with S, each with a bound
\* field (of different names) depending on p, one write to S.p invokes both
\* updaters exactly once within the write.
C4_SynchronousFanOut ==
  (last.op = "write" /\ last.wrote) =>
    \A c1 \in Components, c2 \in Components, f1 \in FieldNames, f2 \in FieldNames :
      (c1 # c2 /\ f1 # f2 /\ Affected(c1, f1) /\ Affected(c2, f2)) =>
        /\ Cardinality(CallsOf(c1, f1)) = 1
        /\ Cardinality(CallsOf(c2, f2)) = 1

UniqueSubscribers ==
  \A s \in Stores :
    \A i \in 1..Len(subscribers[s]), j \in 1..Len(subscribers[s]) :
      subscribers[s][i].key = subscribers[s][j].key => i = j

\* C5: a store's registry holds at most one descriptor per component; a
\* registration of a component already present replaces its descriptor by
\* the new one and the registry does not grow.
C5_RegisterReplaces ==
  /\ UniqueSubscribers
  /\ last.op = "register" =>
       /\ Registered(last.store, last.comp)
       /\ HeldDescriptor(last.store, last.comp) = last.arg
       /\ last.hadPrior => Len(subscribers[last.store]) = last.sizeBefore

\* A component was registered again with a different descriptor.
C5_Witness ==
  /\ last.op = "register"
  /\ last.hadPrior
  /\ last.prior # last.arg
  /\ HeldDescriptor(last.store, last.comp) = last.arg

\* The entry declares the source of some mapping.
DeclaresSome(e, fields) ==
  \E k \in 1..Len(fields) : fields[k].source \in DOMAIN e.fields

\* The targets of the mappings whose source the entry declares.
DeclaredTargets(e, fields) ==
  {fields[k].target : k \in {n \in 1..Len(fields) : fields[n].source \in DOMAIN e.fields}}

\* C6: for every entry e of D that declares a requested source, the result
\* of delegate has an entry with e's store in which every target of a
\* mapping whose source e declares carries exactly e's dependency set of
\* that source, and which has no other field.
C6_DelegateRenames ==
  delegResult.done =>
    \A i \in 1..Len(delegArg) :
      LET e == delegArg[i] IN
      DeclaresSome(e, delegFields) =>
        \E j \in 1..Len(delegResult.value) :
          LET r == delegResult.value[j] IN
          /\ r.store = e.store
          /\ \A k \in 1..Len(delegFields) :
               delegFields[k].source \in DOMAIN e.fields =>
                 /\ delegFields[k].target \in DOMAIN r.fields
                 /\ r.fields[delegFields[k].target] = e.fields[delegFields[k].source]
          /\ DOMAIN r.fields = DeclaredTargets(e, delegFields)

\* The indices of the entries of D that declare a requested source.
MatchingIndices == {i \in 1..Len(delegArg) : DeclaresSome(delegArg[i], delegFields)}

\* The j-th matching index, in D's order.
NthMatching(j) ==
  CHOOSE i \in MatchingIndices : Cardinality({n \in MatchingIndices : n <= i}) = j

\* The mapping that writes target t last.
LastMappingTo(t) ==
  CHOOSE k \in 1..Len(delegFields) :
    /\ delegFields[k].target = t
    /\ \A n \in (k + 1)..Len(delegFields) : delegFields[n].target # t

\* C7: the result of delegate has exactly one entry per entry of D that
\* declares a requested source, in D's order, and none for the others.
C7_DelegateFilters ==
  delegResult.done =>
    /\ Len(delegResult.value) = Cardinality(MatchingIndices)
    /\ \A j \in 1..Len(delegResult.value) :
         LET e == delegArg[NthMatching(j)]
             r == delegResult.value[j]
         IN /\ r.store = e.store
            /\ \A t \in DOMAIN r.fields :
                 r.fields[t] = EntryGet(e, delegFields[LastMappingTo(t)].source)

\* Two entries, one of which declares the requested source: one entry left.
C7_Witness ==
  /\ delegResult.done
  /\ Len(delegArg) = 2
  /\ Len(delegResult.value) = 1
  /\ delegResult.value[1].store = delegArg[2].store
  /\ delegArg[1].store # delegArg[2].store

\* What the element shows of a value v under an updater of the given kind.
Shows(el, kind, v) ==
  CASE kind = "text" -> el.innerText = v
    [] kind = "attribute" -> el.attr = v
    [] kind = "style" -> el.style = v

\* C8: a binding call (setInnerText, setAttribute, setCSSStyle) invokes the
\* new updater exactly once, without argument, within the call, and leaves
\* it in the component's updater map under the field; the element then
\* shows what the field's data source yields at that moment.
C8_BindingAppliesImmediately ==
  last.op = "bind" =>
    /\ Len(last.calls) = 1
    /\ LET k == last.calls[1]
           dss == dataSources[last.comp]
       IN /\ k.comp = last.comp
          /\ k.arg = NoValue
          /\ k.field \in DOMAIN updaters[last.comp]
          /\ updaters[last.comp][k.field] = k.updater
          /\ (k.field \in DOMAIN dss /\ dss[k.field].kind = "read") =>
               Shows(root[last.comp], k.updater.kind,
                     data[dss[k.field].store][dss[k.field].prop])

\* An attribute updater was bound to a field whose data source reads a
\* property that no longer holds its initial value.
C8_Witness ==
  /\ last.op = "bind"
  /\ Len(last.calls) = 1
  /\ last.calls[1].updater.kind = "attribute"
  /\ last.calls[1].field = "a"
  /\ "a" \in DOMAIN dataSources[last.comp]
  /\ data["s1"]["p"] = 1
  /\ root[last.comp].attr = 1

\* C9: a write that fails (non-writable property) runs no notification
\* pass, invokes no updater, and reports the failure as the plain write
\* does.
C9_FailedWriteDoesNotNotify ==
  (last.op = "write" /\ ~last.wrote) =>
    /\ last.visited = <<>>
    /\ last.calls = NoCalls
    /\ last.returned = "false"

\* C10: a write to S1.p invokes only updaters of fields that declare p in
\* an entry naming S1; a field declaring p only in an entry for another
\* store is not invoked.
C10_OnlyOwnEntries ==
  last.op = "write" =>
    \A i \in 1..Len(last.calls) :
      /\ Registered(last.store, last.calls[i].comp)
      /\ DeclaresFor(HeldDescriptor(last.store, last.calls[i].comp),
                     last.store, last.calls[i].field, last.prop)

\* A write to S1.p reached a component that has an entry for S1 and a
\* bound field declaring p only in its entry for another store.
C10_Witness ==
  /\ last.op = "write"
  /\ last.wrote
  /\ \E c \in Components, f \in FieldNames :
       /\ Registered(last.store, c)
       /\ c \in {last.visited[i] : i \in 1..Len(last.visited)}
       /\ last.store \in StoresOf(HeldDescriptor(last.store, c))
       /\ f \in DOMAIN updaters[c]
       /\ Declares(HeldDescriptor(last.store, c), f, last.prop)
       /\ ~DeclaresFor(HeldDescriptor(last.store, c), last.store, f, last.prop)

\* C11: after destroy() neither the updater map nor the data-source
\* object of the component maps any field name.
C11_DestroyClearsMappings ==
  \A c \in Components :
    status[c] = "destroyed" =>
      /\ DOMAIN updaters[c] = {}
      /\ DOMAIN dataSources[c] = {}

\* A mapping whose source no entry of the delegated descriptor declares.
AbsentMappings ==
  {m \in Mappings :
     \A i \in 1..Len(delegArg) : m.source \notin DOMAIN delegArg[i].fields}

\* C13: a mapping whose source field is absent from every entry adds
\* nothing: delegate(D, mappings + [m]) equals delegate(D, mappings).
C13_AbsentSourceContributesNothing ==
  delegResult.done =>
    \A m \in AbsentMappings :
      delegate(delegArg, Append(delegFields, m)) = delegResult.value

\* C14: when the constructor returns, the registry of every store named by
\* an entry of the descriptor holds the component mapped to the entire
\* descriptor, and no other store holds it (none for an empty descriptor).
C14_ConstructRegistersEverywhere ==
  last.op = "construct" =>
    \A s \in Stores :
      IF s \in StoresOf(last.arg)
      THEN /\ Registered(s, last.comp)
           /\ HeldDescriptor(s, last.comp) = last.arg
           /\ remembered[last.comp] = last.arg
      ELSE ~Registered(s, last.comp)

\* A component was constructed with a descriptor naming two stores.
C14_Witness ==
  /\ last.op = "construct"
  /\ Cardinality(StoresOf(last.arg)) = 2
  /\ \A s \in Stores : Registered(s, last.comp)
  /\ Len(HeldDescriptor("s2", last.comp)) = 2

\* C12: a call of delegate leaves the descriptor it is given as it was
\* and changes no store's registry (what a component has registered still
\* is that same descriptor); the derived descriptor is registered nowhere
\* until a component is constructed with it.
C12_DelegateIsPure ==
  [][last'.op = "delegate" =>
       /\ delegArg' = last'.arg
       /\ remembered' = remembered
       /\ subscribers' = subscribers]_vars

\* delegate has just derived a non-empty descriptor from the descriptor the
\* live parent is registered with, and the child does not exist yet.
C12_Witness ==
  /\ last.op = "delegate"
  /\ delegResult.value # <<>>
  /\ delegResult.value # delegArg
  /\ Registered("s1", "c1")
  /\ HeldDescriptor("s1", "c1") = delegArg
  /\ status["c2"] = "none"
  /\ \A s \in Stores : ~Registered(s, "c2")

\* In SpecRender the attribute of the root is only ever set by an updater
\* built by setAttribute for field "a" (the one field whose data source
\* yields a value).  So when the attribute is set while "a" is mapped to
\* a text updater, setAttribute(_, "a") was followed by setInnerText("a").
ReboundA(c) ==
  /\ status[c] = "live"
  /\ root[c].attr \in Values
  /\ "a" \in DOMAIN updaters[c]
  /\ updaters[c]["a"].kind = "text"

\* C15: after binding u1 and then u2 to field f, a write to a property
\* that f depends on invokes u2 and never u1 (checked for f = "a", u1 an
\* attribute updater, u2 a text updater).
C15_LastBindingWins ==
  \A c \in Components :
    (last.op = "write" /\ last.wrote /\ ReboundA(c) /\ Affected(c, "a")) =>
      /\ CallsOf(c, "a") # {}
      /\ \A i \in CallsOf(c, "a") : last.calls[i].updater = updaters[c]["a"]

\* What an attribute or style updater leaves in the element when the
\* field's data source is ds: its value, or the removed / reset marker.
TrackedValue(ds, absent) ==
  IF ds.kind = "read" THEN data[ds.store][ds.prop] ELSE absent

\* C19: each run of an updater built by setAttribute / setCSSStyle leaves
\* the attribute (style property) equal to what the data source yields,
\* removed (reset to empty) when it yields no value, and touches nothing
\* else; with no data source for the field the element is left as it was.
C19_AttributeAndStyleTrack ==
  [][(last'.op = "bind" /\ last'.calls[1].updater.kind \in {"attribute", "style"}) =>
       LET c == last'.comp
           u == last'.calls[1].updater
           dss == dataSources[c]
       IN IF u.field \notin DOMAIN dss
          THEN root'[c] = root[c]
          ELSE IF u.kind = "attribute"
          THEN root'[c] = [root[c] EXCEPT
                             !.attr = TrackedValue(dss[u.field], AttrAbsent)]
          ELSE root'[c] = [root[c] EXCEPT
                             !.style = TrackedValue(dss[u.field], StyleEmpty)]]_vars

\* An attribute updater ran for a field whose data source yields no value,
\* after the attribute had been set through another field: it is removed.
C19_Witness ==
  /\ last.op = "bind"
  /\ last.calls[1].updater = Updater("attribute", "b")
  /\ "b" \in DOMAIN dataSources["c1"]
  /\ dataSources["c1"]["b"] = DsUnset
  /\ "a" \in DOMAIN updaters["c1"]
  /\ updaters["c1"]["a"].kind = "attribute"
  /\ root["c1"].attr = AttrAbsent

\* C20: with components only constructed, bound, written to and destroyed,
\* a store's registry holds a component only if the component's descriptor
\* names that store and the component has not been destroyed; a write
\* neither adds nor removes a registry entry.
C20_RegistryConsistent ==
  /\ [](\A s \in Stores, c \in Components :
          Registered(s, c) =>
            /\ status[c] = "live"
            /\ s \in StoresOf(remembered[c])
            /\ HeldDescriptor(s, c) = remembered[c])
  /\ [][last'.op = "write" => subscribers' = subscribers]_vars

\* A write to a store that a component over two stores has left by being
\* destroyed, while the other component is still registered with it.
C20_Witness ==
  /\ last.op = "write"
  /\ last.store = "s2"
  /\ status["c1"] = "destroyed"
  /\ remembered["c1"] = DescTwo
  /\ ~Registered("s2", "c1")
  /\ Registered("s2", "c2")

\* Component c is registered with store s, and its bound field f depends
\* on property p of s.
Subscribed(c, f, s, p) ==
  /\ status[c] = "live"
  /\ Registered(s, c)
  /\ f \in DOMAIN updaters[c]
  /\ DeclaresFor(HeldDescriptor(s, c), s, f, p)

Before(s, c, t) ==
  \E i, j \in 1..Len(subscribers[s]) :
    /\ i < j
    /\ subscribers[s][i].key = c
    /\ subscribers[s][j].key = t

C18_WriteThenNotify ==
  /\ []((last.op = "write" /\ last.visited # <<>>
           /\ <<last.store, last.prop>> \notin readonly) =>
          /\ data[last.store][last.prop] = last.newValue
          /\ \A i \in 1..Len(last.calls) :
               LET k == last.calls[i]
                   dss == dataSources[k.comp]
               IN k.pass = 1 =>
                    /\ k.arg = last.oldValue
                    /\ (k.updater.kind = "text" /\ k.field \in DOMAIN dss
                          /\ dss[k.field] = DsRead(last.store, last.prop)) =>
                         root[k.comp].innerText = last.newValue)
  /\ [][/\ last'.op = "write" => last'.oldValue = data[last'.store][last'.prop]
        /\ last'.op = "read" =>
             /\ last'.returned = ToString(data[last'.store][last'.prop])
             /\ data' = data
             /\ subscribers' = subscribers]_vars

\* A write of a new value whose notification pass started and threw: the
\* property holds the new value all the same.
C18_Witness ==
  /\ last.op = "write"
  /\ last.visited # <<>>
  /\ last.returned = "TypeError"
  /\ last.newValue # last.oldValue
  /\ data[last.store][last.prop] = last.newValue

\* The positions in the registry of store s at which the dispatch step
\* raises for a write to property p.
Throwers(s, p) ==
  {i \in 1..Len(subscribers[s]) : FieldsToUpdate(subscribers[s][i].val, p).threw}

\* C21: when the dispatch step raises during the notification pass of a
\* write of v to S.p, the writer gets the error, the value the write stored
\* stays in S.p, the registry is as before, and the pass stops there: it
\* examined the subscribers up to the one that raised, in order, and no
\* later subscriber is examined or has an updater invoked.
C21_ErrorAbortsPassNotWrite ==
  [][(last'.op = "write" /\ Throwers(last'.store, last'.prop) # {}) =>
       LET s == last'.store
           p == last'.prop
           first == CHOOSE i \in Throwers(s, p) : \A j \in Throwers(s, p) : i <= j
       IN /\ last'.returned = "TypeError"
          /\ last'.wrote => data'[s][p] = last'.newValue
          /\ subscribers' = subscribers
          /\ last'.visited = [i \in 1..first |-> subscribers[s][i].key]
          /\ \A k \in 1..Len(last'.calls), i \in 1..Len(subscribers[s]) :
               last'.calls[k].comp = subscribers[s][i].key => i < first]_vars

\* A write of a new value raised at the first of two subscribers: the value
\* is stored, both are still registered, and the second, whose bound field
\* depends on the written property, was neither examined nor invoked.
C21_Witness ==
  /\ last.op = "write"
  /\ last.returned = "TypeError"
  /\ last.newValue # last.oldValue
  /\ data[last.store][last.prop] = last.newValue
  /\ Len(subscribers[last.store]) = 2
  /\ last.visited = <<subscribers[last.store][1].key>>
  /\ Affected(subscribers[last.store][2].key, "a")
  /\ last.calls = <<>>

====
